---- MODULE Spec2Model ----
(***************************************************************************)
(* hambur: an interactive terminal chat client.  The model covers the      *)
(* session loop of interactive_mode (src/src/main.rs:268-494), one chat    *)
(* turn of send_chat_request (src/src/main.rs:19-266), the model registry  *)
(* (src/src/models.rs) and the raw-mode guard (src/src/terminal.rs).       *)
(*                                                                         *)
(* Text is a sequence of pieces.  Typed input and model names are          *)
(* sequences of one-character strings.  Response bytes are sequences of    *)
(* wire tokens (below); a chunk boundary may fall between any two tokens.  *)
(* Writes to the terminal and disable_raw_mode are assumed to succeed.      *)
(***************************************************************************)
EXTENDS Integers, Sequences, FiniteSets, TLC

\* Option<T>: None, or Some(v).
None == <<>>

Some(v) == <<v>>

Unwrap(o) == o[1]

Last(s) == s[Len(s)]

RECURSIVE Flatten(_)
Flatten(ss) == IF ss = <<>> THEN <<>> ELSE Head(ss) \o Flatten(Tail(ss))

(***************************************************************************)
(* Wire tokens of a response body.                                         *)
(***************************************************************************)
NL    == "\n"
CR    == "\r"
SP    == " "
PFX   == "data: "
HB    == ": OPENROUTER PROCESSING"
DONE  == "[DONE]"
OPEN  == "{choices:[{delta:{"          \* {"choices":[{"delta":{
CLOSE == "}}]}"
NOCH  == "{choices:[]}"                \* {"choices":[]}
CA    == "content:a"                   \* "content":"a"
CB    == "content:b"                   \* "content":"b"
RR    == "reasoning_content:r"         \* "reasoning_content":"r"
RC    == "reasoning_content:r,content:a"
TXT   == "x"                           \* plain text, not JSON

Whitespace == {SP, CR}

\* The fields of struct ChatResponseDelta a field token deserializes to.
DeltaOf(tok) ==
    CASE tok = CA -> [reasoning_content |-> None,            content |-> Some(<<"a">>)]
      [] tok = CB -> [reasoning_content |-> None,            content |-> Some(<<"b">>)]
      [] tok = RR -> [reasoning_content |-> Some(<<"r">>),   content |-> None]
      [] tok = RC -> [reasoning_content |-> Some(<<"r">>),   content |-> Some(<<"a">>)]

FieldTokens == {CA, CB, RR, RC}

\* What serde reports for a payload that is no ChatResponse.
SerdeError == "<serde_json error>"

(***************************************************************************)
(* str::lines(): split at "\n", a final line needs no terminator, a        *)
(* trailing "\r" of a line is dropped.                                     *)
(***************************************************************************)
RECURSIVE SplitNL(_)
SplitNL(s) ==
    IF s = <<>> THEN << <<>> >>
    ELSE LET rest == SplitNL(Tail(s))
         IN  IF Head(s) = NL THEN << <<>> >> \o rest
             ELSE << <<Head(s)>> \o Head(rest) >> \o Tail(rest)

StripCR(line) ==
    IF line # <<>> /\ Last(line) = CR THEN SubSeq(line, 1, Len(line) - 1) ELSE line

lines(s) ==
    LET segs == SplitNL(s)
        kept == IF Last(segs) = <<>> THEN SubSeq(segs, 1, Len(segs) - 1) ELSE segs
    IN  [i \in DOMAIN kept |-> StripCR(kept[i])]

\* line.trim().is_empty()
IsBlank(line) == \A i \in DOMAIN line : line[i] \in Whitespace

starts_with(s, tok) == s # <<>> /\ Head(s) = tok

\* data.starts_with('{') || data.starts_with('[')
LooksLikeJson(data) == data # <<>> /\ Head(data) \in {OPEN, NOCH, DONE}

(***************************************************************************)
(* serde_json::from_str::<ChatResponse>(data).  JSON whitespace around the *)
(* structural tokens is insignificant; the payload must be one object with *)
(* a choices array whose elements carry a delta object.                    *)
(***************************************************************************)
IsJsonSpace(tok) == tok \in {SP, CR, NL}

from_str(data) ==
    LET j == SelectSeq(data, LAMBDA t : ~IsJsonSpace(t))
    IN  IF j = <<NOCH>>
        THEN [ok |-> TRUE, choices |-> <<>>]
        ELSE IF j = <<OPEN, CLOSE>>
        THEN [ok |-> TRUE,
              choices |-> << [reasoning_content |-> None, content |-> None] >>]
        ELSE IF Len(j) = 3 /\ j[1] = OPEN /\ j[2] \in FieldTokens /\ j[3] = CLOSE
        THEN [ok |-> TRUE, choices |-> << DeltaOf(j[2]) >>]
        ELSE [ok |-> FALSE, choices |-> <<>>]

Frame(kind, text) == [kind |-> kind, text |-> text]

\* format!("解析响应失败: {}\n原始数据: {}", e, data)
error_msg(data) == <<"parse failed: ", SerdeError, "\nraw data: ">> \o data

(***************************************************************************)
(* One line of a chunk: acc is [full_response, rendered], the reply        *)
(* accumulated so far and the frames written to the terminal.              *)
(***************************************************************************)
\* A variant of ParsedLine that renders a text delta without accumulating it.
ParsedLineNoAccumulate(acc, r) ==
    IF r.choices = <<>> \/ r.choices[1].content = None THEN acc
    ELSE [acc EXCEPT !.rendered = Append(@, Frame("TextDelta", Unwrap(r.choices[1].content)))]

\* A variant of ParsedLine that writes the content before the reasoning.
ParsedLineContentFirst(acc, r) ==
    IF r.choices = <<>> THEN acc
    ELSE LET d  == r.choices[1]
             a1 == IF d.content # None
                   THEN [full_response |-> acc.full_response \o Unwrap(d.content),
                         rendered |-> Append(acc.rendered,
                                             Frame("TextDelta", Unwrap(d.content)))]
                   ELSE acc
         IN  IF d.reasoning_content # None
             THEN [a1 EXCEPT !.rendered =
                      Append(@, Frame("ReasoningDelta", Unwrap(d.reasoning_content)))]
             ELSE a1

ParsedLine(acc, r) ==
    IF r.choices = <<>> THEN acc
    ELSE LET d  == r.choices[1]
             a1 == IF d.reasoning_content # None
                   THEN [acc EXCEPT !.rendered =
                            Append(@, Frame("ReasoningDelta", Unwrap(d.reasoning_content)))]
                   ELSE acc
         IN  IF d.content # None
             THEN [full_response |-> a1.full_response \o Unwrap(d.content),
                   rendered |-> Append(a1.rendered, Frame("TextDelta", Unwrap(d.content)))]
             ELSE a1

\* A variant of UnparsedLine that shows plain text without adding it to the reply.
UnparsedLineRawNotPushed(acc, data) ==
    IF ~LooksLikeJson(data)
    THEN [acc EXCEPT !.rendered = Append(@, Frame("RawFallback", data))]
    ELSE [full_response |-> acc.full_response \o error_msg(data),
          rendered |-> Append(acc.rendered, Frame("DecodeError", error_msg(data)))]

UnparsedLine(acc, data) ==
    IF ~LooksLikeJson(data)
    THEN [full_response |-> acc.full_response \o data,
          rendered |-> Append(acc.rendered, Frame("RawFallback", data))]
    ELSE [full_response |-> acc.full_response \o error_msg(data),
          rendered |-> Append(acc.rendered, Frame("DecodeError", error_msg(data)))]

ProcessLine(acc, line) ==
    IF IsBlank(line) THEN acc
    ELSE IF ~starts_with(line, PFX) /\ starts_with(line, HB) THEN acc
    ELSE LET data == IF starts_with(line, PFX) THEN Tail(line) ELSE line
         IN  IF data = <<DONE>> THEN acc
             ELSE LET r == from_str(data)
                  IN  IF r.ok THEN ParsedLine(acc, r) ELSE UnparsedLine(acc, data)

\* A variant of ProcessLines that gives up on a chunk at its first line that
\* fails to parse.
RECURSIVE ProcessLinesStopAtError(_, _)
ProcessLinesStopAtError(acc, ls) ==
    IF ls = <<>> THEN acc
    ELSE LET a1 == ProcessLine(acc, Head(ls))
         IN  IF a1.rendered # acc.rendered /\ Last(a1.rendered).kind = "DecodeError"
             THEN a1
             ELSE ProcessLinesStopAtError(a1, Tail(ls))

\* A variant of ProcessLines that leaves the lines of a chunk after [DONE] unread.
RECURSIVE ProcessLinesStopAtDone(_, _)
ProcessLinesStopAtDone(acc, ls) ==
    IF ls = <<>> \/ Head(ls) \in {<<PFX, DONE>>, <<DONE>>} THEN acc
    ELSE ProcessLinesStopAtDone(ProcessLine(acc, Head(ls)), Tail(ls))

RECURSIVE ProcessLines(_, _)
ProcessLines(acc, ls) ==
    IF ls = <<>> THEN acc ELSE ProcessLines(ProcessLine(acc, Head(ls)), Tail(ls))

\* The body of the stream loop for one chunk (String::from_utf8_lossy, lines()).
ProcessChunk(acc, chunk) == ProcessLines(acc, lines(chunk))

RECURSIVE ProcessChunks(_, _)
ProcessChunks(acc, chunks) ==
    IF chunks = <<>> THEN acc
    ELSE ProcessChunks(ProcessChunk(acc, Head(chunks)), Tail(chunks))

(***************************************************************************)
(* The static registry of models.rs.                                       *)
(***************************************************************************)
Model(id, name, provider) == [id |-> id, name |-> name, provider |-> provider]

get_providers ==
    << [name |-> "deepseek", api_key_env |-> "OPENAI_API_KEY",
        models |-> << Model("deepseek-r1-250120", "deepseek-r1", "deepseek"),
                      Model("deepseek-v3-241226", "deepseek-v3", "deepseek") >>],
       [name |-> "openrouter", api_key_env |-> "OPENROUTER_API_KEY",
        models |-> << Model("google/gemini-2.0-flash-001", "gemini-flash", "openrouter"),
                      Model("google/gemini-2.0-flash-lite-001", "gemini-flash-lite", "openrouter"),
                      Model("google/gemini-2.0-pro-exp-02-05", "gemini-pro", "openrouter") >>] >>

\* The characters of the registry's strings.
Chars(s) ==
    CASE s = "deepseek-r1-250120" ->
           <<"d","e","e","p","s","e","e","k","-","r","1","-","2","5","0","1","2","0">>
      [] s = "deepseek-r1" ->
           <<"d","e","e","p","s","e","e","k","-","r","1">>
      [] s = "deepseek-v3-241226" ->
           <<"d","e","e","p","s","e","e","k","-","v","3","-","2","4","1","2","2","6">>
      [] s = "deepseek-v3" ->
           <<"d","e","e","p","s","e","e","k","-","v","3">>
      [] s = "google/gemini-2.0-flash-001" ->
           <<"g","o","o","g","l","e","/","g","e","m","i","n","i","-","2",".","0","-","f","l","a","s","h","-","0","0","1">>
      [] s = "gemini-flash" ->
           <<"g","e","m","i","n","i","-","f","l","a","s","h">>
      [] s = "google/gemini-2.0-flash-lite-001" ->
           <<"g","o","o","g","l","e","/","g","e","m","i","n","i","-","2",".","0","-","f","l","a","s","h","-","l","i","t","e","-","0","0","1">>
      [] s = "gemini-flash-lite" ->
           <<"g","e","m","i","n","i","-","f","l","a","s","h","-","l","i","t","e">>
      [] s = "google/gemini-2.0-pro-exp-02-05" ->
           <<"g","o","o","g","l","e","/","g","e","m","i","n","i","-","2",".","0","-","p","r","o","-","e","x","p","-","0","2","-","0","5">>
      [] s = "gemini-pro" ->
           <<"g","e","m","i","n","i","-","p","r","o">>
      [] s = "exit" ->
           <<"e","x","i","t">>
      [] s = "clear" ->
           <<"c","l","e","a","r">>

\* str::contains
Contains(hay, needle) ==
    \E i \in 0..(Len(hay) - Len(needle)) : SubSeq(hay, i + 1, i + Len(needle)) = needle

\* A variant of ModelMatches that looks at the id only.
ModelMatchesIdOnly(model, query) == Contains(Chars(model.id), query)

ModelMatches(model, query) ==
    Contains(Chars(model.name), query) \/ Contains(Chars(model.id), query)

find_models(query) ==
    LET providers == get_providers
    IN  Flatten([p \in DOMAIN providers |->
                    SelectSeq(providers[p].models, LAMBDA m : ModelMatches(m, query))])

\* Option<ModelProvider>: the first provider that lists model_id, or None.
get_provider_by_model(model_id) ==
    LET providers == get_providers
        hits == {p \in DOMAIN providers :
                    \E i \in DOMAIN providers[p].models : providers[p].models[i].id = model_id}
    IN  IF hits = {} THEN None
        ELSE Some(providers[CHOOSE p \in hits : \A q \in hits : p <= q])

EnvNames == {"OPENAI_API_KEY", "OPENROUTER_API_KEY"}

(***************************************************************************)
(* Typed text.                                                             *)
(***************************************************************************)
IsSpace(c) == c = " "

RECURSIVE trim_start(_)
trim_start(s) == IF s # <<>> /\ IsSpace(Head(s)) THEN trim_start(Tail(s)) ELSE s

RECURSIVE trim_end(_)
trim_end(s) ==
    IF s # <<>> /\ IsSpace(Last(s)) THEN trim_end(SubSeq(s, 1, Len(s) - 1)) ELSE s

\* A variant of trim that leaves the line as typed.
TrimNothing(s) == s

trim(s) == trim_end(trim_start(s))

to_ascii_lowercase(c) ==
    CASE c = "E" -> "e" [] c = "X" -> "x" [] c = "I" -> "i" [] c = "T" -> "t"
      [] c = "C" -> "c" [] c = "L" -> "l" [] c = "A" -> "a" [] c = "R" -> "r"
      [] OTHER -> c

eq_ignore_ascii_case(a, b) ==
    /\ Len(a) = Len(b)
    /\ \A i \in DOMAIN a : to_ascii_lowercase(a[i]) = to_ascii_lowercase(b[i])

(***************************************************************************)
(* Keys.  A character key is its one-character string.                     *)
(***************************************************************************)
SpecialKeys == {"Esc", "Enter", "Backspace", "Up", "Down"}

\* now.duration_since(last_time).as_millis() < 500
DoubleEscWindow == 500

\* poll(Duration::from_millis(100)) of the input loops
PollTimeout == 100

\* What main returns: nothing yet, Ok(()) or an error.
Running == <<"running">>

Ok == <<"Ok">>

Err(msg) == <<"Err", msg>>

VARIABLES
    pc,               \* "reading" | "selecting" | "sending" | "streaming" | "exited"
    result,           \* what main returns: "running", "Ok" or the error
    message_history,  \* Vec<ChatMessage>
    current_model,    \* the id of the model in use
    last_esc_time,    \* Option<Instant>
    input,            \* the line being typed
    matches,          \* the models offered by the selection list
    selected_index,   \* the highlighted entry of the list, from 0
    stream,           \* the chunks of the response body still to arrive
    full_response,    \* the reply accumulated by the running turn
    rendered,         \* the frames written since the last submitted line
    raw_mode,         \* whether the terminal is in raw mode
    env,              \* the environment variables that are set
    now,              \* the monotonic clock, in milliseconds
    keyq,             \* key events pressed and not yet read
    sent,             \* history: the whole response body as the server sent it
    esc_early,        \* history: Esc was pressed after the request was sent and
                      \*          before a chunk of the response had arrived
    esc_run,          \* history: the last key event read was an Esc read by the input loop
    prev_esc,         \* history: when the input loop last read an Esc
    esc_from,         \* history: the session state in which the last key event read
                      \*          was read, when that key was Esc
    esc_streaming     \* history: Esc was pressed while this turn's response streamed

vars == <<pc, result, message_history, current_model, last_esc_time, input, matches,
          selected_index, stream, full_response, rendered, raw_mode, env, now, keyq,
          sent, esc_early, esc_run, prev_esc, esc_from, esc_streaming>>

\* The session states of the design: AwaitingInput, ModelSwitchPrompt, Streaming, Exited.
State ==
    CASE pc = "reading"   -> "AwaitingInput"
      [] pc = "selecting" -> "ModelSwitchPrompt"
      [] pc \in {"sending", "streaming"} -> "Streaming"
      [] pc = "exited"    -> "Exited"

ChatMessage(role, content) == [role |-> role, content |-> content]

Init ==
    /\ pc = "reading"
    /\ result = Running
    /\ message_history = <<>>
    /\ current_model = "google/gemini-2.0-flash-001"
    /\ last_esc_time = None
    /\ input = <<>>
    /\ matches = <<>>
    /\ selected_index = 0
    /\ stream = <<>>
    /\ full_response = <<>>
    /\ rendered = <<>>
    /\ raw_mode = TRUE
    /\ env \in SUBSET EnvNames
    /\ now = 0
    /\ keyq = <<>>
    /\ sent = None
    /\ esc_early = FALSE
    /\ esc_run = FALSE
    /\ prev_esc = None
    /\ esc_from = None
    /\ esc_streaming = FALSE

(***************************************************************************)
(* Bounds of the model.                                                    *)
(***************************************************************************)
MaxKeys    == 2    \* key events pending at once
MaxHistory == 2    \* a chat turn starts only with fewer messages than this
MaxTicks   == 7    \* the clock stops after this many poll timeouts
MaxLines   == 2    \* lines of a generated response
MaxCuts    == 1    \* chunk boundaries inside a generated response
MaxQuery   == 3    \* characters of a generated query

(***************************************************************************)
(* RawModeGuard (terminal.rs): enter() enables raw mode, drop disables it. *)
(* Every return of interactive_mode drops the guards it holds; the next    *)
(* iteration of the session loop drops the old guard and enters a new one. *)
(***************************************************************************)
RawModeGuard_enter == raw_mode' = TRUE

RawModeGuard_drop == raw_mode' = FALSE

\* The top of 'outer: a fresh prompt and an empty line.
NextPrompt ==
    /\ pc' = "reading"
    /\ input' = <<>>
    /\ RawModeGuard_enter

\* A variant of Return that leaves without running the guards' drop.
ReturnWithoutDrop(r) ==
    /\ pc' = "exited"
    /\ result' = r
    /\ UNCHANGED raw_mode

\* interactive_mode returns r to main, which returns it.
Return(r) ==
    /\ pc' = "exited"
    /\ result' = r
    /\ RawModeGuard_drop

(***************************************************************************)
(* The keyboard.                                                           *)
(***************************************************************************)
\* The lines the user types and submits; the empty line may be submitted too.
TypedLines ==
    { <<"e","x","i","t">>, <<"C","l","e","a","r">>, <<"p","r","o">>,
      <<"f","l","a","s","h">>, <<" ","h","i">> }

IsPrefix(s, t) == Len(s) <= Len(t) /\ SubSeq(t, 1, Len(s)) = s

TypedChars == UNION {{l[i] : i \in DOMAIN l} : l \in TypedLines}

\* The keys the user may press in each state.
KeysAt(p) ==
    CASE p = "reading"   -> {"Esc", "Backspace", "Up"}
                              \cup {l[Len(input) + 1] :
                                       l \in {t \in TypedLines : Len(t) > Len(input)
                                                                  /\ IsPrefix(input, t)}}
                              \cup {k \in {"Enter"} : input \in TypedLines \cup {<<>>}}
      [] p = "selecting" -> {"Esc", "Enter", "Backspace", "Up", "Down"}
      [] OTHER           -> {"Esc", "Up"}

\* The keys read() may return when poll() reports an event: the oldest pending key,
\* or, with none pending, a key pressed at this moment.
Readable == IF keyq # <<>> THEN {Head(keyq)} ELSE KeysAt(pc)

read(k) ==
    /\ k \in Readable
    /\ keyq' = IF keyq # <<>> THEN Tail(keyq) ELSE keyq

(***************************************************************************)
(* The input loop (main.rs:290-340).                                       *)
(***************************************************************************)
\* A variant of WithinWindow that compares whole seconds.
WithinWindowSecs(t, last_time) == (t - last_time) \div 1000 < DoubleEscWindow

WithinWindow(t, last_time) == t - last_time < DoubleEscWindow

ReadEsc ==
    /\ pc = "reading"
    /\ read("Esc")
    /\ IF last_esc_time # None /\ WithinWindow(now, Unwrap(last_esc_time))
       THEN /\ rendered' = Append(rendered, Frame("Notice", <<"[double Esc: exited]">>))
            /\ Return(Ok)
            /\ UNCHANGED <<last_esc_time, input>>
       ELSE /\ last_esc_time' = Some(now)
            /\ UNCHANGED <<pc, result, rendered, raw_mode, input>>
    /\ esc_run' = TRUE
    /\ prev_esc' = Some(now)
    /\ esc_from' = Some("AwaitingInput")
    /\ UNCHANGED <<message_history, current_model, matches, selected_index, stream,
                   full_response, env, now, sent, esc_early, esc_streaming>>

ReadOther(k) ==
    /\ pc = "reading"
    /\ k \notin {"Esc", "Enter"}
    /\ read(k)
    /\ last_esc_time' = None
    /\ input' = CASE k \notin SpecialKeys -> Append(input, k)
                  [] k = "Backspace" /\ input # <<>> -> SubSeq(input, 1, Len(input) - 1)
                  [] OTHER -> input
    /\ esc_run' = FALSE
    /\ esc_from' = None
    /\ UNCHANGED <<pc, result, message_history, current_model, matches, selected_index,
                   stream, full_response, rendered, raw_mode, env, now, sent, esc_early,
                   prev_esc, esc_streaming>>

(***************************************************************************)
(* Enter: the submitted line is trimmed and dispatched (main.rs:344-490).  *)
(***************************************************************************)
IsExit(line)  == eq_ignore_ascii_case(line, Chars("exit"))
IsClear(line) == eq_ignore_ascii_case(line, Chars("clear"))
IsChat(line)  == ~IsExit(line) /\ ~IsClear(line) /\ find_models(line) = <<>>

ExitCommand ==
    /\ Return(Ok)
    /\ rendered' = <<>>
    /\ UNCHANGED <<message_history, current_model, matches, selected_index, stream,
                   full_response, input>>

\* A variant of ClearCommand that reports the clearing and keeps the history.
ClearCommandKeepsHistory ==
    /\ rendered' = << Frame("Notice", <<"[history cleared]">>) >>
    /\ NextPrompt
    /\ UNCHANGED <<result, message_history, current_model, matches, selected_index,
                   stream, full_response>>

ClearCommand ==
    /\ message_history' = <<>>
    /\ rendered' = << Frame("Notice", <<"[history cleared]">>) >>
    /\ NextPrompt
    /\ UNCHANGED <<result, current_model, matches, selected_index, stream, full_response>>

\* A variant of SwitchModel that starts a new conversation with the new model.
SwitchModelClearsHistory(model) ==
    /\ current_model' = model.id
    /\ message_history' = <<>>
    /\ rendered' = << Frame("Notice", <<"switched to: ", model.name>>) >>
    /\ NextPrompt
    /\ matches' = <<>>
    /\ selected_index' = 0
    /\ UNCHANGED <<result, stream, full_response>>

\* A variant of SwitchModel that keeps the display name instead of the id.
SwitchModelStoresName(model) ==
    /\ current_model' = model.name
    /\ rendered' = << Frame("Notice", <<"switched to: ", model.name>>) >>
    /\ NextPrompt
    /\ matches' = <<>>
    /\ selected_index' = 0
    /\ UNCHANGED <<result, message_history, stream, full_response>>

SwitchModel(model) ==
    /\ current_model' = model.id
    /\ rendered' = << Frame("Notice", <<"switched to: ", model.name>>) >>
    /\ NextPrompt
    /\ matches' = <<>>
    /\ selected_index' = 0
    /\ UNCHANGED <<result, message_history, stream, full_response>>

OpenSelection(ms) ==
    /\ pc' = "selecting"
    /\ matches' = ms
    /\ selected_index' = 0
    /\ rendered' = << Frame("Notice", <<"multiple models match">>) >>
    /\ RawModeGuard_enter
    /\ UNCHANGED <<result, message_history, current_model, stream, full_response, input>>

\* The messages of the request being sent: a clone of the history (main.rs:41-45).
request_messages == message_history

\* send_chat_request up to the await of the response (main.rs:19-58).
SendRequest(message) ==
    LET provider == get_provider_by_model(current_model)
    IN  IF provider = None
        THEN /\ Return(Err("provider not found"))
             /\ UNCHANGED <<message_history, input>>
        ELSE IF Unwrap(provider).api_key_env \notin env
        THEN /\ Return(Err("environment variable not found"))
             /\ UNCHANGED <<message_history, input>>
        ELSE /\ message_history' = Append(message_history, ChatMessage("user", message))
             /\ pc' = "sending"
             /\ UNCHANGED <<result, raw_mode, input>>

ChatTurn(line) ==
    /\ Len(message_history) < MaxHistory
    /\ rendered' = <<>>
    /\ SendRequest(line)
    /\ UNCHANGED <<current_model, matches, selected_index, stream, full_response>>

ReadEnter ==
    /\ pc = "reading"
    /\ read("Enter")
    /\ LET line == trim(input)
           ms   == find_models(line)
       IN  IF IsExit(line) THEN ExitCommand
           ELSE IF IsClear(line) THEN ClearCommand
           ELSE IF Len(ms) = 1 THEN SwitchModel(ms[1])
           ELSE IF Len(ms) > 1 THEN OpenSelection(ms)
           ELSE ChatTurn(line)
    /\ sent' = None
    /\ esc_early' = FALSE
    /\ esc_run' = FALSE
    /\ esc_from' = None
    /\ esc_streaming' = FALSE
    /\ UNCHANGED <<last_esc_time, env, now, prev_esc>>

(***************************************************************************)
(* The selection list (main.rs:408-462).                                   *)
(***************************************************************************)
\* A variant of SelectKey whose Down does not stop at the last entry.
SelectKeyNoUpperClamp(k) ==
    /\ pc = "selecting"
    /\ read(k)
    /\     CASE k = "Up" ->
                  /\ selected_index' = IF selected_index > 0 THEN selected_index - 1
                                       ELSE selected_index
                  /\ UNCHANGED <<pc, result, message_history, current_model, matches,
                                 stream, full_response, rendered, raw_mode, input>>
             [] k = "Down" ->
                  /\ selected_index' = selected_index + 1
                  /\ UNCHANGED <<pc, result, message_history, current_model, matches,
                                 stream, full_response, rendered, raw_mode, input>>
             [] k = "Enter" -> SwitchModel(matches[selected_index + 1])
             [] k = "Esc" ->
                  /\ rendered' = Append(rendered, Frame("Notice", <<"switch cancelled">>))
                  /\ NextPrompt
                  /\ matches' = <<>>
                  /\ selected_index' = 0
                  /\ UNCHANGED <<result, message_history, current_model, stream,
                                 full_response>>
             [] OTHER ->
                  UNCHANGED <<pc, result, message_history, current_model, matches,
                              selected_index, stream, full_response, rendered, raw_mode,
                              input>>
    /\ esc_run' = FALSE
    /\ esc_from' = IF k = "Esc" THEN Some("ModelSwitchPrompt") ELSE None
    /\ UNCHANGED <<last_esc_time, env, now, sent, esc_early, prev_esc, esc_streaming>>

SelectKey(k) ==
    /\ pc = "selecting"
    /\ read(k)
    /\     CASE k = "Up" ->
                  /\ selected_index' = IF selected_index > 0 THEN selected_index - 1
                                       ELSE selected_index
                  /\ UNCHANGED <<pc, result, message_history, current_model, matches,
                                 stream, full_response, rendered, raw_mode, input>>
             [] k = "Down" ->
                  /\ selected_index' = IF selected_index < Len(matches) - 1
                                       THEN selected_index + 1 ELSE selected_index
                  /\ UNCHANGED <<pc, result, message_history, current_model, matches,
                                 stream, full_response, rendered, raw_mode, input>>
             [] k = "Enter" -> SwitchModel(matches[selected_index + 1])
             [] k = "Esc" ->
                  /\ rendered' = Append(rendered, Frame("Notice", <<"switch cancelled">>))
                  /\ NextPrompt
                  /\ matches' = <<>>
                  /\ selected_index' = 0
                  /\ UNCHANGED <<result, message_history, current_model, stream,
                                 full_response>>
             [] OTHER ->
                  UNCHANGED <<pc, result, message_history, current_model, matches,
                              selected_index, stream, full_response, rendered, raw_mode,
                              input>>
    /\ esc_run' = FALSE
    /\ esc_from' = IF k = "Esc" THEN Some("ModelSwitchPrompt") ELSE None
    /\ UNCHANGED <<last_esc_time, env, now, sent, esc_early, prev_esc, esc_streaming>>

(***************************************************************************)
(* The response to the request (main.rs:53-101).                           *)
(***************************************************************************)
Chunk(bytes) == [ok |-> TRUE, bytes |-> bytes]

ChunkErr == [ok |-> FALSE, bytes |-> <<>>]

ConnErr == [kind |-> "ConnErr"]

Status(code, text_ok) == [kind |-> "Status", code |-> code, text_ok |-> text_ok]

Body(items) == [kind |-> "Stream", body |-> items]

StatusMessage(code) ==
    CASE code = 401 -> <<"auth failed(401)", "<error_text>">>
      [] code = 429 -> <<"too many requests(429)", "<error_text>">>
      [] OTHER      -> <<"request failed(status)", "<error_text>">>

\* The turn's result is returned to the session loop, which drops it (main.rs:489).
ReturnReply(reply) ==
    /\ NextPrompt
    /\ full_response' = <<>>
    /\ stream' = <<>>
    /\ UNCHANGED result

Respond(o) ==
    /\ pc = "sending"
    /\ CASE o.kind = "ConnErr" ->
              /\ rendered' = Append(rendered, Frame("TransportError", <<"request failed">>))
              /\ ReturnReply(<<"request failed">>)
              /\ UNCHANGED <<sent>>
         [] o.kind = "Status" /\ o.text_ok ->
              /\ rendered' = Append(rendered, Frame("TransportError", StatusMessage(o.code)))
              /\ ReturnReply(StatusMessage(o.code))
              /\ UNCHANGED <<sent>>
         [] o.kind = "Status" /\ ~o.text_ok ->
              /\ Return(Err("reading the error body failed"))
              /\ UNCHANGED <<rendered, input, full_response, stream, sent>>
         [] o.kind = "Stream" ->
              /\ stream' = o.body
              /\ sent' = Some(o.body)
              /\ full_response' = <<>>
              /\ pc' = "streaming"
              /\ RawModeGuard_enter
              /\ UNCHANGED <<result, rendered, input>>
    /\ UNCHANGED <<message_history, current_model, last_esc_time, matches, selected_index,
                   env, now, keyq, esc_early, esc_run, prev_esc, esc_from, esc_streaming>>

(***************************************************************************)
(* The stream loop (main.rs:103-250) and the end of the turn (254-265).    *)
(***************************************************************************)
Interrupted == Frame("Notice", <<"[interrupted]">>)

\* println, the assistant message, Ok(full_response)
FinishTurn(reply) ==
    /\ message_history' = Append(message_history, ChatMessage("assistant", reply))
    /\ ReturnReply(reply)

\* stream.next() yields an item: poll the keyboard, then decode the chunk.
StreamNext ==
    /\ pc = "streaming"
    /\ stream # <<>>
    /\ keyq' = IF keyq # <<>> THEN Tail(keyq) ELSE keyq
    /\ IF keyq # <<>> /\ Head(keyq) = "Esc"
       THEN /\ rendered' = Append(rendered, Interrupted)
            /\ FinishTurn(full_response)
       ELSE IF ~Head(stream).ok
       THEN /\ Return(Err("reading a chunk failed"))
            /\ UNCHANGED <<message_history, stream, full_response, rendered, input>>
       ELSE LET acc == ProcessChunk([full_response |-> full_response,
                                     rendered |-> rendered], Head(stream).bytes)
            IN  /\ full_response' = acc.full_response
                /\ rendered' = acc.rendered
                /\ stream' = Tail(stream)
                /\ UNCHANGED <<pc, result, message_history, raw_mode, input>>
    /\ esc_run' = (esc_run /\ keyq = <<>>)
    /\ esc_from' = IF keyq = <<>> THEN esc_from
                   ELSE IF Head(keyq) = "Esc" THEN Some("Streaming") ELSE None
    /\ UNCHANGED <<current_model, last_esc_time, matches, selected_index, env, now, sent,
                   esc_early, prev_esc, esc_streaming>>

\* stream.next() yields None.
StreamEnd ==
    /\ pc = "streaming"
    /\ stream = <<>>
    /\ FinishTurn(full_response)
    /\ UNCHANGED <<current_model, last_esc_time, matches, selected_index, rendered, env,
                   now, keyq, sent, esc_early, esc_run, prev_esc, esc_from,
                   esc_streaming>>

(***************************************************************************)
(* The environment: the user presses keys and time passes.                 *)
(***************************************************************************)
\* A key is pressed while a request or a response is in flight, and waits.
PressKey(k) ==
    /\ pc \in {"sending", "streaming"}
    /\ Len(keyq) < MaxKeys
    /\ k \in KeysAt(pc)
    /\ keyq' = Append(keyq, k)
    /\ esc_early' = (esc_early \/ (k = "Esc" /\ (pc = "sending" \/
                                      (pc = "streaming" /\ sent = Some(stream)))))
    /\ esc_streaming' = (esc_streaming \/ (k = "Esc" /\ pc = "streaming"))
    /\ UNCHANGED <<pc, result, message_history, current_model, last_esc_time, input,
                   matches, selected_index, stream, full_response, rendered, raw_mode,
                   env, now, sent, esc_run, prev_esc, esc_from>>

\* A poll of an input loop times out.
Advance ==
    /\ pc \in {"reading", "selecting"}
    /\ now < MaxTicks * PollTimeout
    /\ now' = now + PollTimeout
    /\ UNCHANGED <<pc, result, message_history, current_model, last_esc_time, input,
                   matches, selected_index, stream, full_response, rendered, raw_mode,
                   env, keyq, sent, esc_early, esc_run, prev_esc, esc_from,
                   esc_streaming>>

\* poll() or read() of a loop fails (main.rs:291-292, 409-410, 105-106): the
\* error is returned through interactive_mode and main.
EventFail ==
    /\ pc \in {"reading", "selecting"} \/ (pc = "streaming" /\ stream # <<>>)
    /\ Return(Err("reading a terminal event failed"))
    /\ UNCHANGED <<message_history, current_model, last_esc_time, input, matches,
                   selected_index, stream, full_response, rendered, env, now, keyq,
                   sent, esc_early, esc_run, prev_esc, esc_from, esc_streaming>>

(***************************************************************************)
(* The responses the server may give.                                      *)
(***************************************************************************)
SeqsUpTo(S, n) == UNION {[1..k -> S] : k \in 0..n}

RECURSIVE SortedSeq(_)
SortedSeq(S) ==
    IF S = {} THEN <<>>
    ELSE LET m == CHOOSE x \in S : \A y \in S : x <= y
         IN  <<m>> \o SortedSeq(S \ {m})

\* The chunks of wire w when the boundaries fall after the positions in cuts.
ChunksOf(w, cuts) ==
    LET bs == SortedSeq({0, Len(w)} \cup cuts)
    IN  [i \in 1..(Len(bs) - 1) |-> SubSeq(w, bs[i] + 1, bs[i + 1])]

\* A response of newline-terminated lines.
Wire(ls) == Flatten([i \in DOMAIN ls |-> ls[i] \o <<NL>>])

\* The sets of at most k of the positions P.
RECURSIVE CutsUpTo(_, _)
CutsUpTo(P, k) ==
    IF k = 0 THEN {{}}
    ELSE LET fewer == CutsUpTo(P, k - 1)
         IN  fewer \cup {c \cup {x} : c \in fewer, x \in P}

\* The places a response of n tokens can be cut at, for every n that occurs:
\* a line has at most four tokens and its newline.
CutSetsOf == [n \in 0..(5 * MaxLines) |-> CutsUpTo(1..(n - 1), MaxCuts)]

CutSets(n) == CutSetsOf[n]

AsStream(chunks) == [i \in DOMAIN chunks |-> Chunk(chunks[i])]

LineShapes ==
    { <<PFX, OPEN, CA, CLOSE>>,      \* a content delta
      <<PFX, OPEN, CB, CLOSE>>,
      <<PFX, OPEN, RC, CLOSE>>,      \* reasoning and content in one payload
      <<PFX, DONE>>,
      <<PFX, OPEN, CA>>,             \* looks like JSON, does not parse
      <<TXT>>,                       \* plain text
      <<HB>>,
      <<>> }

\* The response of lines ls cut at the positions in cuts.
Generated(ls, cuts) == Body(AsStream(ChunksOf(Wire(ls), cuts)))

SessionBodies ==
    { <<>>,
      << Chunk(<<PFX, OPEN, CA, CLOSE, NL>>), Chunk(<<PFX, DONE, NL>>) >>,
      << Chunk(<<PFX, OPEN, CB, CLOSE, NL>>), ChunkErr >> }

SessionOutcomes ==
    {ConnErr} \cup {Status(c, t) : c \in {401, 429, 500}, t \in BOOLEAN}
              \cup {Body(b) : b \in SessionBodies}

(***************************************************************************)
(* The session: the user types and the server answers, all within one poll *)
(* interval.                                                               *)
(***************************************************************************)
\* The responses a request can get: none unless one is awaited.
Awaited(outcomes) == IF pc = "sending" THEN outcomes ELSE {}

Next ==
    \/ \E k \in KeysAt(pc) : PressKey(k)
    \/ ReadEsc
    \/ \E k \in Readable : ReadOther(k)
    \/ ReadEnter
    \/ \E k \in Readable : SelectKey(k)
    \/ \E o \in Awaited(SessionOutcomes) : Respond(o)
    \/ StreamNext
    \/ StreamEnd
    \/ EventFail

Spec == Init /\ [][Next]_vars

(***************************************************************************)
(* The keyboard against the clock: the user types, polls time out, and     *)
(* every request fails to connect.                                         *)
(***************************************************************************)
InitKeys == Init /\ env = EnvNames

NextKeys ==
    \/ \E k \in KeysAt(pc) : PressKey(k)
    \/ ReadEsc
    \/ \E k \in Readable : ReadOther(k)
    \/ ReadEnter
    \/ \E k \in Readable : SelectKey(k)
    \/ Respond(ConnErr)
    \/ Advance

SpecKeys == InitKeys /\ [][NextKeys]_vars

(***************************************************************************)
(* The registry against every query: a line has been typed and Enter is    *)
(* pressed; selection lists are answered and empty lines submitted.        *)
(***************************************************************************)
QueryChars == {"i", "-", "f", "F", "2", "v", " "}

QueryInputs == TypedLines \cup SeqsUpTo(QueryChars, MaxQuery)

InitFind ==
    /\ pc = "reading"
    /\ result = Running
    /\ message_history = <<>>
    /\ current_model = "google/gemini-2.0-flash-001"
    /\ last_esc_time = None
    /\ input \in QueryInputs
    /\ matches = <<>>
    /\ selected_index = 0
    /\ stream = <<>>
    /\ full_response = <<>>
    /\ rendered = <<>>
    /\ raw_mode = TRUE
    /\ env = EnvNames
    /\ now = 0
    /\ keyq = <<"Enter">>
    /\ sent = None
    /\ esc_early = FALSE
    /\ esc_run = FALSE
    /\ prev_esc = None
    /\ esc_from = None
    /\ esc_streaming = FALSE

NextFind ==
    \/ ReadEnter
    \/ \E k \in Readable : SelectKey(k)

SpecFind == InitFind /\ [][NextFind]_vars

(***************************************************************************)
(* One chat turn against every generated response: the request for the     *)
(* message "hi" has just been sent.                                        *)
(***************************************************************************)
InitDecode ==
    /\ pc = "sending"
    /\ result = Running
    /\ message_history = << ChatMessage("user", <<"h", "i">>) >>
    /\ current_model = "google/gemini-2.0-flash-001"
    /\ last_esc_time = None
    /\ input = <<" ", "h", "i">>
    /\ matches = <<>>
    /\ selected_index = 0
    /\ stream = <<>>
    /\ full_response = <<>>
    /\ rendered = <<>>
    /\ raw_mode = TRUE
    /\ env = EnvNames
    /\ now = 0
    /\ keyq = <<>>
    /\ sent = None
    /\ esc_early = FALSE
    /\ esc_run = FALSE
    /\ prev_esc = None
    /\ esc_from = None
    /\ esc_streaming = FALSE

NextDecode ==
    \/ \E ls \in Awaited(SeqsUpTo(LineShapes, MaxLines)) :
           \E cuts \in CutSets(Len(Wire(ls))) : Respond(Generated(ls, cuts))
    \/ StreamNext
    \/ StreamEnd

SpecDecode == InitDecode /\ [][NextDecode]_vars

(***************************************************************************)
(* What the properties below speak of.                                     *)
(***************************************************************************)
\* A streamed turn has ended and control is back in the session loop.
TurnDone == pc = "reading" /\ sent # None

\* The assistant reply stored by the turn that ended last.
Reply == Last(message_history).content

ReplyStored == message_history # <<>> /\ Last(message_history).role = "assistant"

WasInterrupted == \E i \in DOMAIN rendered : rendered[i] = Interrupted

\* The bytes of the response, and its lines as the chunks delivered them.
WireOf(items) == Flatten([i \in DOMAIN items |-> items[i].bytes])

LinesOf(items) == Flatten([i \in DOMAIN items |-> lines(items[i].bytes)])

AllOk(items) == \A i \in DOMAIN items : items[i].ok

\* Every line lies wholly inside one chunk.
WholeLines(items) ==
    \A i \in DOMAIN items : items[i].bytes # <<>> /\ Last(items[i].bytes) = NL

TextsOf(frames, kinds) ==
    LET sel == SelectSeq(frames, LAMBDA f : f.kind \in kinds)
    IN  [i \in DOMAIN sel |-> sel[i].text]

\* The lines of a well-formed SSE response.
DataLines == {<<PFX, OPEN, f, CLOSE>> : f \in FieldTokens} \cup {<<PFX, OPEN, CLOSE>>}

WellFormedLines == DataLines \cup {<<PFX, DONE>>, <<HB>>, <<>>}

WellFormedSSE(w) ==
    /\ w # <<>> => Last(w) = NL
    /\ \A i \in DOMAIN lines(w) : lines(w)[i] \in WellFormedLines

NoFrames == [full_response |-> <<>>, rendered |-> <<>>]

(***************************************************************************)
(* C1: for a well-formed SSE response and no cancellation, the reply is    *)
(* the same however the bytes are cut into chunks, cuts inside a line      *)
(* included: it is the reply of the response delivered as one chunk.       *)
(***************************************************************************)
C1_ReplySameForEveryChunking ==
    (TurnDone /\ AllOk(Unwrap(sent)) /\ ~WasInterrupted
              /\ WellFormedSSE(WireOf(Unwrap(sent))))
        => /\ ReplyStored
           /\ Reply = ProcessChunk(NoFrames, WireOf(Unwrap(sent))).full_response

(***************************************************************************)
(* C2: a response of data lines that each carry a content delta, then      *)
(* data: [DONE], every line wholly inside one chunk, no cancellation:      *)
(* exactly one text delta per data line, in order, no other frame, and the *)
(* reply is the concatenation of the content values.                       *)
(***************************************************************************)
ContentOfLine(l) ==
    IF l = <<PFX, OPEN, CA, CLOSE>> THEN <<"a">>
    ELSE IF l = <<PFX, OPEN, CB, CLOSE>> THEN <<"b">>
    ELSE <<"?">>

ContentLinesThenDone(items) ==
    LET ls == LinesOf(items)
    IN  /\ AllOk(items)
        /\ WholeLines(items)
        /\ ls # <<>>
        /\ Last(ls) = <<PFX, DONE>>
        /\ \A i \in 1..(Len(ls) - 1) :
               ls[i] \in {<<PFX, OPEN, CA, CLOSE>>, <<PFX, OPEN, CB, CLOSE>>}

ContentsOf(items) ==
    LET ls == LinesOf(items)
    IN  [i \in 1..(Len(ls) - 1) |-> ContentOfLine(ls[i])]

PayloadOf(l) == IF l # <<>> /\ Head(l) = PFX THEN Tail(l) ELSE l

ParsingPayloads ==
    {<<OPEN, f, CLOSE>> : f \in FieldTokens} \cup {<<OPEN, CLOSE>>, <<NOCH>>}

IsMalformedJsonLine(l) ==
    /\ PayloadOf(l) # <<>>
    /\ Head(PayloadOf(l)) = OPEN
    /\ PayloadOf(l) \notin ParsingPayloads

MalformedJsonLines(items) ==
    {l \in {LinesOf(items)[i] : i \in DOMAIN LinesOf(items)} : IsMalformedJsonLine(l)}

(***************************************************************************)
(* C3: the text of the DecodeError diagnostic of a line that looks like    *)
(* JSON and fails to parse is not added to the accumulated reply: the      *)
(* assistant message stored for the turn does not contain it.              *)
(***************************************************************************)
C3_DiagnosticNotInReply ==
    (TurnDone /\ ReplyStored)
        => \A l \in MalformedJsonLines(Unwrap(sent)) :
               ~Contains(Reply, error_msg(PayloadOf(l)))

(***************************************************************************)
(* C4: a line that fails to parse never aborts the stream: every           *)
(* well-formed content line of the response, before or after a failing     *)
(* line, in the same chunk or a later one, yields its text delta, and the  *)
(* turn ends in AwaitingInput with the process running.                    *)
(***************************************************************************)
TextOfPayload(d) ==
    IF d \in {<<OPEN, CA, CLOSE>>, <<OPEN, RC, CLOSE>>} THEN << <<"a">> >>
    ELSE IF d = <<OPEN, CB, CLOSE>> THEN << <<"b">> >>
    ELSE <<>>

ExpectedTextDeltas(items) ==
    Flatten([i \in DOMAIN LinesOf(items) |-> TextOfPayload(PayloadOf(LinesOf(items)[i]))])

FailsToParse(l) ==
    /\ PayloadOf(l) # <<>>
    /\ l # <<HB>>
    /\ PayloadOf(l) \notin ParsingPayloads \cup {<<DONE>>}

C4_MalformedLineNeverAborts ==
    /\ (sent # None /\ AllOk(Unwrap(sent))) => pc # "exited"
    /\ (TurnDone /\ AllOk(Unwrap(sent)) /\ ~WasInterrupted)
           => /\ State = "AwaitingInput"
              /\ result = Running
              /\ ReplyStored
              /\ TextsOf(rendered, {"TextDelta"}) = ExpectedTextDeltas(Unwrap(sent))

\* A failing line was followed by a content line whose text is in the stored reply.
C4_Witness ==
    /\ TurnDone
    /\ ReplyStored
    /\ \E i \in DOMAIN LinesOf(Unwrap(sent)) :
           /\ FailsToParse(LinesOf(Unwrap(sent))[i])
           /\ i < Len(LinesOf(Unwrap(sent)))
           /\ TextOfPayload(PayloadOf(LinesOf(Unwrap(sent))[i + 1])) # <<>>
    /\ Reply # <<>> /\ Last(Reply) \in {"a", "b"}
    /\ Len(Unwrap(sent)) = 2

(***************************************************************************)
(* C5: Esc pressed after the request is sent and before any chunk of the   *)
(* response arrives: the turn ends with an empty reply and the interrupted *)
(* marker written.  Stated for responses of at least one chunk.            *)
(***************************************************************************)
C5_EarlyEscGivesEmptyReply ==
    (TurnDone /\ esc_early /\ Unwrap(sent) # <<>>)
        => /\ ReplyStored
           /\ Reply = <<>>
           /\ WasInterrupted

(***************************************************************************)
(* C6: in the input loop, an Esc read less than 500 ms after the previous  *)
(* Esc, with no other key read between them, exits the session; an Esc     *)
(* that is the first one read, or that comes more than 500 ms after the    *)
(* previous one, does not, and leaves the typed input, the history and the *)
(* current model unchanged.                                                *)
(***************************************************************************)
C6_DoubleEscWithin500ms ==
    [][ /\ (ReadEsc /\ esc_run /\ now - Unwrap(prev_esc) < 500)
            => State' = "Exited"
        /\ (ReadEsc /\ (prev_esc = None \/ now - Unwrap(prev_esc) > 500))
            => /\ State' = "AwaitingInput"
               /\ UNCHANGED <<input, message_history, current_model>> ]_vars

\* The session was ended by a second Esc after a pair of presses too far apart.
C6_Witness ==
    /\ State = "Exited"
    /\ result = Ok
    /\ rendered # <<>> /\ Last(rendered) = Frame("Notice", <<"[double Esc: exited]">>)
    /\ now >= 600

(***************************************************************************)
(* C7: a missing credential variable or an unknown model id does not       *)
(* terminate the process: no run ends with that error.                     *)
(***************************************************************************)
C7_ConfigErrorKeepsSession ==
    result \notin {Err("environment variable not found"), Err("provider not found")}

(***************************************************************************)
(* C8: after a turn that failed with a transport error, the diagnostic is  *)
(* the assistant reply stored in the history, right after the turn's user  *)
(* message.                                                                *)
(***************************************************************************)
C8_TransportErrorStoredAsReply ==
    \A i \in DOMAIN rendered :
        (pc = "reading" /\ rendered[i].kind = "TransportError")
            => /\ Len(message_history) >= 2
               /\ message_history[Len(message_history) - 1].role = "user"
               /\ Last(message_history) = ChatMessage("assistant", rendered[i].text)

(***************************************************************************)
(* C9: a transport error never terminates the process: no run ends with an *)
(* error from reading the error body or from reading a chunk.              *)
(***************************************************************************)
C9_TransportErrorKeepsSession ==
    result \notin {Err("reading the error body failed"), Err("reading a chunk failed")}

(***************************************************************************)
(* C10: in AwaitingInput the history is empty or alternates user,          *)
(* assistant, ..., from a user message to an assistant message.            *)
(***************************************************************************)
Alternates(h) ==
    /\ Len(h) % 2 = 0
    /\ \A i \in DOMAIN h : h[i].role = IF i % 2 = 1 THEN "user" ELSE "assistant"

C10_HistoryAlternates == State = "AwaitingInput" => Alternates(message_history)

(***************************************************************************)
(* C11: raw mode is released on every exit path: once the process has left *)
(* the session loop, by the exit command, by the double Esc or by an error *)
(* propagated from input reading, model selection or streaming, the        *)
(* terminal is not in raw mode.                                            *)
(***************************************************************************)
C11_RawModeReleasedOnExit == State = "Exited" => ~raw_mode

\* The process left with a terminal error after a stream had been cancelled.
C11_Witness ==
    /\ State = "Exited"
    /\ result = Err("reading a terminal event failed")
    /\ WasInterrupted
    /\ ~raw_mode

(***************************************************************************)
(* C12: Exited is reached from every session state by the double press:    *)
(* an Esc that directly follows an Esc read in ModelSwitchPrompt or in     *)
(* Streaming, with no time passing between them, terminates the process.   *)
(***************************************************************************)
C12_DoubleEscExitsFromEveryState ==
    [][ (ReadEsc /\ esc_from \in {Some("ModelSwitchPrompt"), Some("Streaming")})
            => State' = "Exited" ]_vars

(***************************************************************************)
(* C13: a line that is no delta object and does not start with { or [ is   *)
(* plain assistant text: its raw payload is appended verbatim to the       *)
(* reply, in order with the text deltas around it, and reasoning deltas    *)
(* are never added to the reply.  Stated for responses of whole lines      *)
(* without a malformed JSON-looking line.                                  *)
(***************************************************************************)
IsPlainText(l) ==
    /\ ~IsBlank(l)
    /\ l # <<HB>>
    /\ PayloadOf(l) # <<DONE>>
    /\ PayloadOf(l) = <<>> \/ Head(PayloadOf(l)) \notin {OPEN, NOCH, DONE}

\* What a line adds to the reply: its content, or its raw payload.
ReplyPieceOf(l) ==
    IF IsPlainText(l) THEN PayloadOf(l)
    ELSE IF PayloadOf(l) \in {<<OPEN, CA, CLOSE>>, <<OPEN, RC, CLOSE>>} THEN <<"a">>
    ELSE IF PayloadOf(l) = <<OPEN, CB, CLOSE>> THEN <<"b">>
    ELSE <<>>

PlainTextsOf(items) ==
    LET ls == SelectSeq(LinesOf(items), IsPlainText)
    IN  [i \in DOMAIN ls |-> PayloadOf(ls[i])]

C13_PlainTextJoinsReply ==
    (TurnDone /\ AllOk(Unwrap(sent)) /\ ~WasInterrupted /\ WholeLines(Unwrap(sent))
              /\ MalformedJsonLines(Unwrap(sent)) = {})
        => /\ ReplyStored
           /\ Reply = Flatten([i \in DOMAIN LinesOf(Unwrap(sent)) |->
                                  ReplyPieceOf(LinesOf(Unwrap(sent))[i])])
           /\ TextsOf(rendered, {"RawFallback"}) = PlainTextsOf(Unwrap(sent))

\* A payload with reasoning and content was followed by a line of plain text.
C13_Witness ==
    /\ TurnDone
    /\ LinesOf(Unwrap(sent)) = << <<PFX, OPEN, RC, CLOSE>>, <<TXT>> >>
    /\ ReplyStored
    /\ Reply = <<"a", TXT>>

(***************************************************************************)
(* C14: when one payload carries both reasoning_content and content, its   *)
(* reasoning delta is written before its text delta: every reasoning delta *)
(* of such a payload is directly followed by the payload's text delta, and *)
(* there is one such pair for every such payload decoded.                  *)
(***************************************************************************)
BothPayloadLines(items) ==
    SelectSeq(LinesOf(items), LAMBDA l : PayloadOf(l) = <<OPEN, RC, CLOSE>>)

C14_ReasoningBeforeText ==
    /\ \A i \in DOMAIN rendered :
          rendered[i].kind = "ReasoningDelta"
              => /\ rendered[i] = Frame("ReasoningDelta", <<"r">>)
                 /\ i < Len(rendered)
                 /\ rendered[i + 1] = Frame("TextDelta", <<"a">>)
    /\ (TurnDone /\ AllOk(Unwrap(sent)) /\ ~WasInterrupted)
           => Len(TextsOf(rendered, {"ReasoningDelta"})) = Len(BothPayloadLines(Unwrap(sent)))

\* Two payloads with reasoning and content were decoded.
C14_Witness ==
    /\ TurnDone
    /\ Len(BothPayloadLines(Unwrap(sent))) = 2
    /\ TextsOf(rendered, {"ReasoningDelta", "TextDelta"}) = << <<"r">>, <<"a">>, <<"r">>, <<"a">> >>

(***************************************************************************)
(* C15: find_models(query) returns exactly the registry's models whose id  *)
(* or display name contains query, case-sensitively, in registry order and *)
(* without duplicates: several matches become the selection list, a single *)
(* match becomes the current model, no match starts a chat turn.  "flash"  *)
(* gives gemini-flash, then gemini-flash-lite.                             *)
(***************************************************************************)
RegistryIds ==
    << "deepseek-r1-250120", "deepseek-v3-241226", "google/gemini-2.0-flash-001",
       "google/gemini-2.0-flash-lite-001", "google/gemini-2.0-pro-exp-02-05" >>

RegistryNames ==
    << "deepseek-r1", "deepseek-v3", "gemini-flash", "gemini-flash-lite", "gemini-pro" >>

\* The registry positions of the models whose id or name contains q.
Matching(q) ==
    {i \in DOMAIN RegistryIds :
        Contains(Chars(RegistryIds[i]), q) \/ Contains(Chars(RegistryNames[i]), q)}

\* ms lists exactly the registry positions in P, in increasing order.
ListsInOrder(ms, P) ==
    /\ Len(ms) = Cardinality(P)
    /\ \A j \in DOMAIN ms :
          /\ \E i \in P : ms[j].id = RegistryIds[i] /\ ms[j].name = RegistryNames[i]
          /\ \A k \in DOMAIN ms :
                j < k => \E i1, i2 \in P : /\ i1 < i2
                                          /\ ms[j].id = RegistryIds[i1]
                                          /\ ms[k].id = RegistryIds[i2]

C15_FindModelsExactInOrder ==
    [][ (ReadEnter /\ ~IsExit(trim(input)) /\ ~IsClear(trim(input)))
            => LET P == Matching(trim(input))
               IN  /\ Cardinality(P) > 1
                       => State' = "ModelSwitchPrompt" /\ ListsInOrder(matches', P)
                   /\ Cardinality(P) = 1
                       => /\ State' = "AwaitingInput"
                          /\ \E i \in P : current_model' = RegistryIds[i]
                   /\ Cardinality(P) = 0
                       => State' = "Streaming" /\ current_model' = current_model ]_vars

\* "flash" was submitted and the list offers gemini-flash, then gemini-flash-lite.
C15_Witness ==
    /\ State = "ModelSwitchPrompt"
    /\ input = <<"f", "l", "a", "s", "h">>
    /\ [i \in DOMAIN matches |-> matches[i].name] = <<"gemini-flash", "gemini-flash-lite">>

(***************************************************************************)
(* C16: a line equal to "clear" in any letter case empties the history,    *)
(* keeps the session in AwaitingInput, leaves the current model unchanged  *)
(* and sends no request; the history then stays empty until the next chat  *)
(* turn, whose request carries only that turn's user message.              *)
(***************************************************************************)
IsClearSpelling(line) ==
    /\ Len(line) = 5
    /\ line[1] \in {"c", "C"} /\ line[2] \in {"l", "L"} /\ line[3] \in {"e", "E"}
    /\ line[4] \in {"a", "A"} /\ line[5] \in {"r", "R"}

C16_ClearEmptiesHistory ==
    [][ /\ (ReadEnter /\ IsClearSpelling(trim(input)))
            => /\ message_history' = <<>>
               /\ State' = "AwaitingInput"
               /\ current_model' = current_model
               /\ sent' = None
        /\ (State = "AwaitingInput" /\ message_history = <<>> /\ State' # "Streaming")
            => message_history' = <<>>
        /\ (ReadEnter /\ message_history = <<>> /\ State' = "Streaming")
            => request_messages' = << ChatMessage("user", trim(input)) >> ]_vars

\* "Clear" was submitted with a model other than the default in use.
C16_Witness ==
    /\ State = "AwaitingInput"
    /\ message_history = <<>>
    /\ rendered = << Frame("Notice", <<"[history cleared]">>) >>
    /\ current_model = "google/gemini-2.0-pro-exp-02-05"

(***************************************************************************)
(* C17: cancellation is honoured before each newly arrived chunk: once Esc *)
(* has been pressed while the response streams, the stream loop decodes    *)
(* and renders no further chunk and adds nothing to the reply, whatever    *)
(* other keys were pressed.                                                *)
(***************************************************************************)
C17_NoChunkDecodedAfterEsc ==
    [][ (pc = "streaming" /\ esc_streaming /\ pc' = "streaming")
            => /\ stream' = stream
               /\ rendered' = rendered
               /\ full_response' = full_response ]_vars

(***************************************************************************)
(* C18: the double-press timer is reset by every key other than Esc: an    *)
(* Esc read by the input loop when the key read before it was not an Esc   *)
(* (a character, Backspace, Enter, an arrow key) does not terminate the    *)
(* session, also when an earlier Esc was read at an earlier prompt less    *)
(* than 500 ms before.                                                     *)
(***************************************************************************)
C18_OtherKeyResetsTimer ==
    [][ (ReadEsc /\ esc_from = None) => State' # "Exited" ]_vars

(***************************************************************************)
(* C19: the [DONE] sentinel produces no frame and does not end the decode  *)
(* loop: of a response read to its end without cancellation every line,    *)
(* those after [DONE] in the same chunk or a later one included, has       *)
(* produced its frames, and the text of every such line is in the reply.   *)
(***************************************************************************)
IsDoneLine(l) == PayloadOf(l) = <<DONE>>

\* The frames a line produces.
FramesOfLine(l) ==
    IF IsBlank(l) \/ l = <<HB>> \/ IsDoneLine(l) THEN <<>>
    ELSE IF IsPlainText(l) THEN << Frame("RawFallback", PayloadOf(l)) >>
    ELSE IF PayloadOf(l) = <<OPEN, CA, CLOSE>> THEN << Frame("TextDelta", <<"a">>) >>
    ELSE IF PayloadOf(l) = <<OPEN, CB, CLOSE>> THEN << Frame("TextDelta", <<"b">>) >>
    ELSE IF PayloadOf(l) = <<OPEN, RC, CLOSE>>
         THEN << Frame("ReasoningDelta", <<"r">>), Frame("TextDelta", <<"a">>) >>
    ELSE IF PayloadOf(l) = <<OPEN, RR, CLOSE>> THEN << Frame("ReasoningDelta", <<"r">>) >>
    ELSE IF PayloadOf(l) \in ParsingPayloads THEN <<>>
    ELSE << Frame("DecodeError", error_msg(PayloadOf(l))) >>

HasDoneLine(items) == \E i \in DOMAIN LinesOf(items) : IsDoneLine(LinesOf(items)[i])

C19_DoneDoesNotEndLoop ==
    (TurnDone /\ AllOk(Unwrap(sent)) /\ ~WasInterrupted /\ HasDoneLine(Unwrap(sent)))
        => /\ rendered = Flatten([i \in DOMAIN LinesOf(Unwrap(sent)) |->
                                     FramesOfLine(LinesOf(Unwrap(sent))[i])])
           /\ ReplyStored
           /\ MalformedJsonLines(Unwrap(sent)) = {}
                 => Reply = Flatten([i \in DOMAIN LinesOf(Unwrap(sent)) |->
                                        ReplyPieceOf(LinesOf(Unwrap(sent))[i])])

\* [DONE] and then a content line arrived in one chunk; the reply holds the content.
C19_Witness ==
    /\ TurnDone
    /\ Unwrap(sent) = << Chunk(<<PFX, DONE, NL, PFX, OPEN, CA, CLOSE, NL>>) >>
    /\ rendered = << Frame("TextDelta", <<"a">>) >>
    /\ ReplyStored
    /\ Reply = <<"a">>

(***************************************************************************)
(* C20: in the selection list of n models the highlighted index starts at  *)
(* 0 and stays within 0..n-1: Up at 0 and Down at n-1 leave it unchanged,  *)
(* otherwise they move it by one, and Enter makes the model at the         *)
(* highlighted index the current model.                                    *)
(***************************************************************************)
C20_SelectionIndexClamped ==
    [][ /\ State = "ModelSwitchPrompt" => selected_index \in 0..(Len(matches) - 1)
        /\ (State # "ModelSwitchPrompt" /\ State' = "ModelSwitchPrompt")
              => selected_index' = 0 /\ Len(matches') > 1
        /\ SelectKey("Up")
              => /\ selected_index' = IF selected_index = 0 THEN 0 ELSE selected_index - 1
                 /\ State' = "ModelSwitchPrompt" /\ matches' = matches
        /\ SelectKey("Down")
              => /\ selected_index' = IF selected_index = Len(matches) - 1
                                      THEN selected_index ELSE selected_index + 1
                 /\ State' = "ModelSwitchPrompt" /\ matches' = matches
        /\ SelectKey("Enter")
              => /\ current_model' = matches[selected_index + 1].id
                 /\ State' = "AwaitingInput" ]_vars

\* The second entry of a list was chosen: gemini-flash-lite is the current model.
C20_Witness ==
    /\ State = "AwaitingInput"
    /\ current_model = "google/gemini-2.0-flash-lite-001"
    /\ rendered = << Frame("Notice", <<"switched to: ", "gemini-flash-lite">>) >>

(***************************************************************************)
(* C21: model switching never touches the conversation: Esc in the         *)
(* selection list returns to AwaitingInput with the current model and the  *)
(* history unchanged, whatever the highlighted index; a confirmed switch   *)
(* (a line matching one model, or Enter in the list) returns to            *)
(* AwaitingInput with the history unchanged and no request sent.           *)
(***************************************************************************)
IsExitSpelling(line) ==
    /\ Len(line) = 4
    /\ line[1] \in {"e", "E"} /\ line[2] \in {"x", "X"}
    /\ line[3] \in {"i", "I"} /\ line[4] \in {"t", "T"}

\* The submitted line names exactly one model.
SingleMatch ==
    /\ ReadEnter
    /\ ~IsExitSpelling(trim(input)) /\ ~IsClearSpelling(trim(input))
    /\ Cardinality(Matching(trim(input))) = 1

\* The conversation and the turn's bookkeeping are as before, no request is out.
ConversationUntouched ==
    /\ State' = "AwaitingInput"
    /\ message_history' = message_history
    /\ result' = result
    /\ stream' = stream /\ full_response' = full_response
    /\ sent' \in {sent, None}

C21_SwitchKeepsConversation ==
    [][ /\ SelectKey("Esc") => ConversationUntouched /\ current_model' = current_model
        /\ SelectKey("Enter")
              => ConversationUntouched /\ current_model' = matches[selected_index + 1].id
        /\ SingleMatch
              => /\ ConversationUntouched
                 /\ \E i \in Matching(trim(input)) : current_model' = RegistryIds[i] ]_vars

\* After a chat turn and a switch to gemini-pro, a selection list was cancelled.
C21_Witness ==
    /\ State = "AwaitingInput"
    /\ Len(message_history) = 2
    /\ current_model = "google/gemini-2.0-pro-exp-02-05"
    /\ rendered # <<>> /\ Last(rendered) = Frame("Notice", <<"switch cancelled">>)

(***************************************************************************)
(* C22: in every reachable state the current model is the id of a model of *)
(* the registry, so the provider lookup of a chat turn succeeds and the    *)
(* unknown-model error is never the result.                                *)
(***************************************************************************)
C22_CurrentModelInRegistry ==
    /\ \E i \in DOMAIN RegistryIds : current_model = RegistryIds[i]
    /\ get_provider_by_model(current_model) # None
    /\ result # Err("provider not found")

\* A request is out for a model chosen from the list of all models.
C22_Witness ==
    /\ pc = "sending"
    /\ current_model = "deepseek-v3-241226"
    /\ Last(message_history).role = "user"

(***************************************************************************)
(* C23: a chat request is sent only for a line that, trimmed, is neither   *)
(* exit nor clear and is contained in no model id or display name; an      *)
(* empty or whitespace-only line sends no request and appends nothing to   *)
(* the history: it matches every model and opens the selection list.       *)
(***************************************************************************)
\* The line without the spaces at its ends.
RECURSIVE Unpadded(_)
Unpadded(line) ==
    IF line = <<>> THEN line
    ELSE IF Head(line) = " " THEN Unpadded(Tail(line))
    ELSE IF Last(line) = " " THEN Unpadded(SubSeq(line, 1, Len(line) - 1))
    ELSE line

IsWhitespaceOnly(line) == \A i \in DOMAIN line : line[i] = " "

C23_ChatOnlyForNonMatchingLine ==
    [][ /\ (State # "Streaming" /\ State' = "Streaming")
              => /\ ReadEnter
                 /\ ~IsExitSpelling(Unpadded(input))
                 /\ ~IsClearSpelling(Unpadded(input))
                 /\ Matching(Unpadded(input)) = {}
                 /\ request_messages' =
                        Append(message_history, ChatMessage("user", Unpadded(input)))
        /\ (State # "Streaming" /\ State' # "Streaming")
              => Len(message_history') <= Len(message_history)
        /\ (ReadEnter /\ IsWhitespaceOnly(input))
              => /\ State' = "ModelSwitchPrompt"
                 /\ Len(matches') = Len(RegistryIds)
                 /\ message_history' = message_history ]_vars

\* A line of two spaces was submitted and the list offers every model.
C23_Witness ==
    /\ State = "ModelSwitchPrompt"
    /\ input = <<" ", " ">>
    /\ [i \in DOMAIN matches |-> matches[i].id] = RegistryIds
    /\ message_history = <<>>
====
